---- MODULE Spec2Model ----
(***************************************************************************)
(* Arabic visual question answering: the captioning / question-answering   *)
(* backends (aravqa.modules), the BiT captioning pipeline, the VQAv2        *)
(* dataset join and the VQAv2 collate function.                            *)
(*                                                                         *)
(* Three specifications share the variables:                               *)
(*   Spec        backends: construction, captioning and answering calls    *)
(*   DatasetSpec VQAv2Dataset over a base and an auxiliary source          *)
(*   LoaderSpec  VQAv2DataLoader.collate_fn over lists of examples, and    *)
(*               dataset[idx] over a dataset of one example                *)
(* A Python dict is a function whose DOMAIN is its set of keys; a Python   *)
(* list is a sequence; a raised exception is a result with raised = TRUE.  *)
(***************************************************************************)
EXTENDS Integers, Sequences, FiniteSets, TLC

\* Longest list of images handed to one captioning call.
MaxImages == 2

\* Longest base / auxiliary source of the dataset join.
MaxLen == 2

\* Longest list of examples handed to collate_fn.
MaxBatch == 2

\* Longest list of questions handed to one answer_question call.
MaxQuestions == 2

VARIABLES
    kind,       \* which backend class the object is an instance of
    phase,      \* "new" before __init__ ran, then "ready" or "failed"
    fields,     \* the attributes __init__ has assigned on the object
    loadCalls,  \* how many times _load_model was entered
    loadSeen,   \* the attributes the object had at each entry of _load_model
    model,      \* 0: no model held; k: the model the k-th load produced
    loadOK,     \* whether the checkpoint / weights can be loaded at all
    call,       \* the last captioning call: receiver, arguments, outcome
    BDS,        \* VQAv2Dataset.BDS, the base source
    VDS,        \* VQAv2Dataset.VDS, the auxiliary source
    got,        \* the last __len__ / __getitem__ call and its outcome
    collated,   \* the last collate_fn call and its outcome
    asked       \* the last answer_question call and its outcome

vars == <<kind, phase, fields, loadCalls, loadSeen, model, loadOK, call, BDS, VDS, got, collated, asked>>

\* Sequences over S of length at most n.
SeqUpTo(S, n) == UNION {[1..k -> S] : k \in 0..n}

Min(S) == CHOOSE x \in S : \A y \in S : x <= y

(***************************************************************************)
(* Images and CaptionGenerator._prepare_image                              *)
(***************************************************************************)

\* What a caller can pass as one image.  "path_missing" is a path whose
\* file cannot be opened, "path_corrupt" a file that does not decode,
\* "url_down" a URL whose download fails, "url_corrupt" a URL whose
\* download succeeds and does not decode, "other" a value of no supported
\* type (an int, a tuple, None).
ImageInputs ==
    {"pil", "path", "path_missing", "path_corrupt", "url", "url_down",
     "url_corrupt", "ndarray", "tensor", "other"}

\* Values that exist only inside a call: the RGB image _prepare_image
\* returns, a row of the processor's pixel_values tensor, and the image
\* _prepare_image builds from such a row.
ImageValues == ImageInputs \cup {"rgb", "pixel_values", "rgb_of_pixel_values"}

\* err is the class of the exception raised, msg the parts of its message.
OkImage(v) == [raised |-> FALSE, err |-> "", msg |-> <<>>, val |-> v]
RaiseImage(e, m) == [raised |-> TRUE, err |-> e, msg |-> m, val |-> ""]

\* type(image) as the message of line 59 prints it.
TypeOf(image) ==
    CASE image \in {"pil", "rgb", "rgb_of_pixel_values"} -> "Image"
      [] image \in {"path", "path_missing", "path_corrupt",
                    "url", "url_down", "url_corrupt"} -> "str"
      [] image = "ndarray" -> "ndarray"
      [] image \in {"tensor", "pixel_values"} -> "Tensor"
      [] OTHER -> "int"

\* _prepare_image raising one exception class per cause: a failed fetch
\* (download or file), a failed decode, an unsupported type.
PrepareImageDistinctKinds(image) ==
    CASE image \in {"pil", "rgb"} -> OkImage("rgb")
      [] image = "rgb_of_pixel_values" -> OkImage("rgb_of_pixel_values")
      [] image \in {"path", "url", "ndarray", "tensor"} -> OkImage("rgb")
      [] image = "pixel_values" -> OkImage("rgb_of_pixel_values")
      [] image \in {"url_down", "path_missing"} ->
            RaiseImage("SourceUnavailable", <<"Error fetching image">>)
      [] image \in {"url_corrupt", "path_corrupt"} ->
            RaiseImage("InvalidImageData", <<"Error decoding image">>)
      [] OTHER ->
            RaiseImage("UnsupportedInputType",
                       <<"Unsupported image input type", TypeOf(image)>>)

\* _prepare_image: the isinstance chain, then the two except clauses.  The
\* first re-raises a RequestException of requests.get / raise_for_status;
\* the second turns every other exception (open() failing, PIL failing to
\* decode, the ValueError of line 59) into ValueError.
PrepareImage(image) ==
    CASE image \in {"pil", "rgb"} -> OkImage("rgb")
      [] image = "rgb_of_pixel_values" -> OkImage("rgb_of_pixel_values")
      [] image \in {"path", "url", "ndarray", "tensor"} -> OkImage("rgb")
      [] image = "pixel_values" -> OkImage("rgb_of_pixel_values")
      [] image = "url_down" ->
            RaiseImage("RequestException", <<"Error downloading image">>)
      [] image = "path_missing" ->
            RaiseImage("ValueError", <<"Error preparing image", "No such file">>)
      [] image \in {"path_corrupt", "url_corrupt"} ->
            RaiseImage("ValueError",
                       <<"Error preparing image", "cannot identify image file">>)
      [] OTHER ->
            RaiseImage("ValueError",
                       <<"Error preparing image", "Unsupported image input type",
                         TypeOf(image)>>)

\* An images argument: a list, or one bare value.
ListArg(items) == [isList |-> TRUE, items |-> items, one |-> "none"]
SingleArg(x) == [isList |-> FALSE, items |-> <<>>, one |-> x]

ImageArgs ==
    {ListArg(s) : s \in SeqUpTo(ImageInputs, MaxImages)}
        \cup {SingleArg(x) : x \in ImageInputs}

\* images = [images] if not isinstance(images, list) else images
Wrap(images) == IF images.isList THEN images.items ELSE <<images.one>>

Ok(v) == [raised |-> FALSE, err |-> "", val |-> v]
Raise(e) == [raised |-> TRUE, err |-> e, val |-> <<>>]

\* [self._prepare_image(img) for img in images]: left to right, the first
\* failure ends the comprehension with that image's error.
MapPrepare(imgs) ==
    LET bad == {i \in 1..Len(imgs) : PrepareImage(imgs[i]).raised}
    IN IF bad = {}
          THEN Ok([i \in 1..Len(imgs) |-> PrepareImage(imgs[i]).val])
          ELSE Raise(PrepareImage(imgs[Min(bad)]).err)

\* [[] for _ in images]
EmptyPerImage(imgs) == [i \in 1..Len(imgs) |-> <<>>]

(***************************************************************************)
(* Construction of a backend                                               *)
(***************************************************************************)

\* "base": a concrete CaptionGenerator that inherits generate_captions and
\* supplies the three abstract methods; "violet": VioletCaptioner; "qa": a
\* concrete QuestionAnswerer that supplies the abstract methods as their
\* docstrings describe them; "gemini": GeminiAnswerer;
\* "bit": BiTImageCaptioningPipeline.
BackendKinds == {"base", "violet", "qa", "gemini", "bit"}

NewObject == [fields |-> {}, loadCalls |-> 0, seen |-> <<>>, model |-> 0]

Loaded(o, m) == [raised |-> FALSE, ret |-> m, obj |-> o]
LoadFailed(o) == [raised |-> TRUE, ret |-> 0, obj |-> o]

\* The attributes VioletCaptioner.__init__ assigns after super().__init__.
VioletInitFields == {"cfg", "device", "tokenizer", "processor"}

VioletFields == {"config", "model"} \cup VioletInitFields

\* The abstract _load_model as a concrete subclass supplies it: it loads
\* the model and keeps it on the instance, or raises.
AbstractLoadModel(o, ok) ==
    LET o1 == [o EXCEPT !.loadCalls = @ + 1, !.seen = Append(@, o.fields)]
    IN IF ok
          THEN Loaded([o1 EXCEPT !.model = o1.loadCalls,
                                 !.fields = @ \cup {"model"}], o1.loadCalls)
          ELSE LoadFailed(o1)

\* VioletCaptioner._load_model: reads self.cfg, self.tokenizer and
\* self.device (an unassigned attribute is an AttributeError, re-raised as
\* Exception), loads the checkpoint, and returns the model without
\* assigning it.
VioletLoadModel(o, ok) ==
    LET o1 == [o EXCEPT !.loadCalls = @ + 1, !.seen = Append(@, o.fields)]
    IN IF ~({"cfg", "tokenizer", "device"} \subseteq o.fields)
          THEN LoadFailed(o1)
          ELSE IF ok THEN Loaded(o1, o1.loadCalls) ELSE LoadFailed(o1)

\* GeminiAnswerer._load_model: the body is pass; nothing is loaded, nothing
\* is kept, None is returned.
GeminiLoadModel(o, ok) ==
    Loaded([o EXCEPT !.loadCalls = @ + 1, !.seen = Append(@, o.fields)], 0)

\* self._load_model(): dynamic dispatch on the class of self.
LoadModel(k, o, ok) ==
    CASE k = "violet" -> VioletLoadModel(o, ok)
      [] k = "gemini" -> GeminiLoadModel(o, ok)
      [] OTHER -> AbstractLoadModel(o, ok)

\* CaptionGenerator.__init__: self.config = config; self._load_model()
\* (the value _load_model returns is dropped).
CaptionGeneratorInit(k, o, ok) ==
    LoadModel(k, [o EXCEPT !.fields = @ \cup {"config"}], ok)

\* QuestionAnswerer.__init__: self.config = config; self._load_model()
QuestionAnswererInit(k, o, ok) ==
    LoadModel(k, [o EXCEPT !.fields = @ \cup {"config"}], ok)

\* VioletCaptioner.__init__: super().__init__(config), then cfg, device,
\* tokenizer, processor, then self.model = self._load_model().
VioletCaptionerInit(o, ok) ==
    LET s == CaptionGeneratorInit("violet", o, ok)
        o2 == [s.obj EXCEPT !.fields = @ \cup VioletInitFields]
        l == VioletLoadModel(o2, ok)
    IN IF s.raised THEN s
       ELSE IF l.raised THEN l
       ELSE Loaded([l.obj EXCEPT !.model = l.ret,
                                 !.fields = @ \cup {"model"}], l.ret)

\* BiTImageCaptioningPipeline.__init__: config, tokenizer, tensorizer,
\* feature extractor and model are loaded with from_pretrained; there is
\* no _load_model.
BiTPipelineInit(o, ok) ==
    IF ok
       THEN Loaded([o EXCEPT !.model = 1,
                             !.fields = {"cfg", "config", "tokenizer",
                                         "caption_tensorizer",
                                         "feature_extractor", "model"}], 1)
       ELSE LoadFailed([o EXCEPT !.fields = {"cfg"}])

\* gemini_answerer.py line 1 binds the name QuestionAnswerer to the module
\* aravqa.modules.question_answering.base, not to the class it holds.
GeminiBaseIsClass == FALSE

\* GeminiAnswerer(config).  With a module as its base the class statement of
\* line 4 raises TypeError when gemini_answerer is imported, and there is no
\* class to call; with the class as its base, __init__ is
\* super().__init__(config).
GeminiAnswererInit(o, ok) ==
    IF GeminiBaseIsClass THEN QuestionAnswererInit("gemini", o, ok)
                         ELSE LoadFailed(o)

\* The constructor call Class(config).
ConstructorOf(k, o, ok) ==
    CASE k = "base" -> CaptionGeneratorInit(k, o, ok)
      [] k = "violet" -> VioletCaptionerInit(o, ok)
      [] k = "qa" -> QuestionAnswererInit(k, o, ok)
      [] k = "gemini" -> GeminiAnswererInit(o, ok)
      [] OTHER -> BiTPipelineInit(o, ok)

(***************************************************************************)
(* answer_question                                                         *)
(***************************************************************************)

\* Python values of the types answer_question takes and returns.
StrValue(x) == [type |-> "str", str |-> x, items |-> <<>>]
ListValue(xs) == [type |-> "list", str |-> "", items |-> xs]
NoneValue == [type |-> "NoneType", str |-> "", items |-> <<>>]

Questions == {"q1", "q2"}

\* A question argument: one string, or a list of strings.
QuestionArgs ==
    {StrValue(q) : q \in Questions}
        \cup {ListValue(qs) : qs \in SeqUpTo(Questions, MaxQuestions)}

\* The answer a model gives to one question.
AnswerTo(q) == "answer to " \o q

\* What answer_question returns or raises.
Answered(v) == [raised |-> FALSE, err |-> "", val |-> v]

\* The abstract answer_question as a concrete subclass supplies it: "a
\* single answer string or a list of answer strings corresponding to the
\* input questions".
AbstractAnswerQuestion(self, question) ==
    IF question.type = "list"
       THEN Answered(ListValue([i \in 1..Len(question.items) |->
                                   AnswerTo(question.items[i])]))
       ELSE Answered(StrValue(AnswerTo(question.str)))

\* GeminiAnswerer.answer_question: the body is pass, so the call returns
\* None whatever the question.
GeminiAnswerQuestion(self, question) == Answered(NoneValue)

\* obj.answer_question(question): dispatch on the class of obj.
AnswerQuestion(k, self, question) ==
    IF k = "gemini" THEN GeminiAnswerQuestion(self, question)
                    ELSE AbstractAnswerQuestion(self, question)

(***************************************************************************)
(* The captioning calls                                                    *)
(***************************************************************************)

\* The collaborators of a call that can fail on their own: the processor
\* call of generate_captions and of extract_visual_features, the CLIP
\* encoder, beam search (VioletCaptioner); the abstract methods as a
\* subclass supplies them; the VinVL extractor and the BERT model (BiT).
Faults(k) ==
    CASE k = "violet" -> {"processor", "evf_processor", "encoder", "beam_search"}
      [] k = "base" -> {"extract_visual_features", "generate_captions_from_features"}
      [] k = "bit" -> {"feature_extractor", "model"}
      [] OTHER -> {}

\* The captions beam search / decoding returns for one image: a non-empty
\* list, each caption a dict with a "caption" key.
CaptionsOf(feature) == <<[caption |-> feature]>>

\* extract_visual_features with the failure swallowed: an empty feature
\* list is returned where the code re-raises.
ExtractAbsorbingFailure(self, images, faults) ==
    LET imgs == Wrap(images)
        p == MapPrepare(imgs)
    IN IF p.raised \/ "processor" \notin self \/ "evf_processor" \in faults
          \/ "device" \notin self \/ "model" \notin self \/ "encoder" \in faults
          THEN Ok(<<>>)
          ELSE Ok(p.val)

\* VioletCaptioner.extract_visual_features
VioletExtractVisualFeatures(self, images, faults) ==
    LET imgs == Wrap(images)
        p == MapPrepare(imgs)
    IN IF p.raised THEN Raise("Exception")
       ELSE IF "processor" \notin self \/ "evf_processor" \in faults
               \/ "device" \notin self
          THEN Raise("Exception")
       ELSE IF "model" \notin self \/ "encoder" \in faults
          THEN Raise("Exception")
       ELSE Ok(p.val)

\* VioletCaptioner.generate_captions_from_features
VioletGenerateCaptionsFromFeatures(self, features, faults) ==
    IF ~({"model", "cfg", "tokenizer"} \subseteq self) \/ "beam_search" \in faults
       THEN Raise("Exception")
       ELSE Ok([i \in 1..Len(features) |-> CaptionsOf(features[i])])

\* The abstract extract_visual_features / generate_captions_from_features
\* as a concrete subclass of CaptionGenerator supplies them.
AbstractExtractVisualFeatures(self, images, faults) ==
    IF "extract_visual_features" \in faults
       THEN Raise("Exception") ELSE Ok(Wrap(images))

AbstractGenerateCaptionsFromFeatures(self, features, faults) ==
    IF "generate_captions_from_features" \in faults
       THEN Raise("Exception")
       ELSE Ok([i \in 1..Len(features) |-> CaptionsOf(features[i])])

\* The outcome of generate_captions.  failed: the step whose exception the
\* except clause caught ("none": the try block returned); trace: the steps
\* entered, in order; evfArg: what extract_visual_features was handed.
Returned(v, t, a) ==
    [raised |-> FALSE, err |-> "", val |-> v, failed |-> "none",
     trace |-> t, evfArg |-> a]

\* The except clause returning one empty list for the whole call.
AbsorbedAsEmptyList(imgs, step, t, a) ==
    [raised |-> FALSE, err |-> "", val |-> <<>>, failed |-> step,
     trace |-> t, evfArg |-> a]

\* except Exception: print(...); return [[] for _ in images], with images
\* as it is bound when the exception arrives.
Absorbed(imgs, step, t, a) ==
    [raised |-> FALSE, err |-> "", val |-> EmptyPerImage(imgs), failed |-> step,
     trace |-> t, evfArg |-> a]

\* generate_captions going on to generate_captions_from_features, with no
\* features, after extract_visual_features raised.
GenerateAfterFailedExtract(self, images, faults) ==
    LET imgs == Wrap(images)
        p == MapPrepare(imgs)
        f == AbstractExtractVisualFeatures(self, ListArg(p.val), faults)
        g == AbstractGenerateCaptionsFromFeatures(
                 self, IF f.raised THEN <<>> ELSE f.val, faults)
        t1 == <<"_prepare_image">>
        t2 == Append(t1, "extract_visual_features")
        t3 == Append(t2, "generate_captions_from_features")
    IN IF p.raised THEN Absorbed(imgs, "_prepare_image", t1, <<>>)
       ELSE IF f.raised \/ g.raised
          THEN Absorbed(imgs, IF f.raised THEN "extract_visual_features"
                                          ELSE "generate_captions_from_features",
                        t3, p.val)
       ELSE Returned(g.val, t3, p.val)

\* generate_captions with the try block inside the loop: an image that
\* cannot be prepared gets an empty list, the others keep their captions.
GenerateCaptionsPerImage(self, images, faults) ==
    LET imgs == Wrap(images)
        t3 == <<"_prepare_image", "extract_visual_features",
                "generate_captions_from_features">>
    IN IF faults # {}
          THEN Absorbed(imgs, "extract_visual_features", t3, <<>>)
          ELSE Returned([i \in 1..Len(imgs) |->
                            IF PrepareImage(imgs[i]).raised THEN <<>>
                            ELSE CaptionsOf(PrepareImage(imgs[i]).val)],
                        t3, <<>>)

\* CaptionGenerator.generate_captions (inherited by kind "base")
BaseGenerateCaptions(self, images, faults) ==
    LET imgs == Wrap(images)
        p == MapPrepare(imgs)
        f == AbstractExtractVisualFeatures(self, ListArg(p.val), faults)
        g == AbstractGenerateCaptionsFromFeatures(self, f.val, faults)
        t1 == <<"_prepare_image">>
        t2 == Append(t1, "extract_visual_features")
        t3 == Append(t2, "generate_captions_from_features")
    IN IF p.raised THEN Absorbed(imgs, "_prepare_image", t1, <<>>)
       ELSE IF f.raised THEN Absorbed(imgs, "extract_visual_features", t2, p.val)
       ELSE IF g.raised
          THEN Absorbed(imgs, "generate_captions_from_features", t3, p.val)
       ELSE Returned(g.val, t3, p.val)

\* VioletCaptioner.generate_captions: images is rebound to the prepared
\* list and then to the processor's pixel_values, whose rows are prepared
\* once more before extract_visual_features sees them.
VioletGenerateCaptions(self, images, faults) ==
    LET imgs == Wrap(images)
        p == MapPrepare(imgs)
        pixels == [i \in 1..Len(p.val) |-> "pixel_values"]
        q == MapPrepare(pixels)
        f == VioletExtractVisualFeatures(self, ListArg(q.val), faults)
        g == VioletGenerateCaptionsFromFeatures(self, f.val, faults)
        t1 == <<"_prepare_image">>
        t2 == Append(t1, "processor")
        t3 == Append(t2, "_prepare_image")
        t4 == Append(t3, "extract_visual_features")
        t5 == Append(t4, "generate_captions_from_features")
    IN IF p.raised THEN Absorbed(imgs, "_prepare_image", t1, <<>>)
       ELSE IF "processor" \notin self \/ "processor" \in faults
               \/ "device" \notin self
          THEN Absorbed(p.val, "processor", t2, <<>>)
       ELSE IF q.raised THEN Absorbed(pixels, "_prepare_image", t3, <<>>)
       ELSE IF f.raised THEN Absorbed(pixels, "extract_visual_features", t4, q.val)
       ELSE IF g.raised
          THEN Absorbed(pixels, "generate_captions_from_features", t5, q.val)
       ELSE Returned(g.val, t5, q.val)

\* Inputs the VinVL feature extractor cannot turn into region features.
Unreadable == {"path_missing", "path_corrupt", "url_down", "url_corrupt", "other"}

\* BiTImageCaptioningPipeline.generate_captions: one try block around the
\* loop over the images; results is lost when any iteration raises.
BiTGenerateCaptions(self, images, faults) ==
    LET imgs == images.items
        bad == {i \in 1..Len(imgs) : imgs[i] \in Unreadable}
    IN IF imgs # <<>> /\ (bad # {} \/ faults # {})
          THEN Raise("RuntimeError")
          ELSE Ok([i \in 1..Len(imgs) |-> CaptionsOf(imgs[i])])

(***************************************************************************)
(* Spec: one backend object, its construction and the calls made on it     *)
(***************************************************************************)

NoCall ==
    [op |-> "none", self |-> {}, images |-> ListArg(<<>>), features |-> <<>>,
     faults |-> {}, raised |-> FALSE, err |-> "", val |-> <<>>,
     failed |-> "none", trace |-> <<>>, evfArg |-> <<>>, msg |-> <<>>]

NoGot ==
    [op |-> "none", idx |-> 0, raised |-> FALSE, err |-> "", len |-> 0,
     item |-> <<>>]

NoCollated == [op |-> "none", batch |-> <<>>, raised |-> FALSE, err |-> "", val |-> <<>>]

NoAsked ==
    [op |-> "none", self |-> {}, question |-> NoneValue, raised |-> FALSE,
     err |-> "", val |-> NoneValue]

Init ==
    /\ kind \in BackendKinds
    /\ phase = "new"
    /\ fields = {}
    /\ loadCalls = 0
    /\ loadSeen = <<>>
    /\ model = 0
    /\ loadOK \in BOOLEAN
    /\ call = NoCall
    /\ BDS = <<>>
    /\ VDS = <<>>
    /\ got = NoGot
    /\ collated = NoCollated
    /\ asked = NoAsked

\* obj = Class(config)
Construct ==
    /\ phase = "new"
    /\ LET r == ConstructorOf(kind, NewObject, loadOK)
       IN /\ phase' = IF r.raised THEN "failed" ELSE "ready"
          /\ fields' = r.obj.fields
          /\ loadCalls' = r.obj.loadCalls
          /\ loadSeen' = r.obj.seen
          /\ model' = r.obj.model
    /\ UNCHANGED <<kind, loadOK, call, BDS, VDS, got, collated, asked>>

\* The objects a method can be called on.  A constructor that returned
\* yields its object.  For VioletCaptioner the methods are applied both to
\* the object its constructor left behind and to a receiver carrying the
\* attributes the methods read (cfg, device, tokenizer, processor, model).
Receivers ==
    CASE kind = "violet" -> (IF phase = "new" THEN {} ELSE {fields, VioletFields})
      [] kind = "gemini" -> (IF phase = "new" THEN {} ELSE {fields, {"config"}})
      [] OTHER -> (IF phase = "ready" THEN {fields} ELSE {})

\* obj.generate_captions(images): dispatch on the class of obj.
GenerateCaptions(k, self, images, faults) ==
    IF k = "violet" THEN VioletGenerateCaptions(self, images, faults)
                    ELSE BaseGenerateCaptions(self, images, faults)

CallGenerateCaptions ==
    /\ call.op = "none"
    /\ kind \in {"base", "violet"}
    /\ \E self \in Receivers, images \in ImageArgs, faults \in SUBSET Faults(kind) :
          LET r == GenerateCaptions(kind, self, images, faults)
          IN call' = [op |-> "generate_captions", self |-> self, images |-> images,
                      features |-> <<>>, faults |-> faults, raised |-> r.raised,
                      err |-> r.err, val |-> r.val, failed |-> r.failed,
                      trace |-> r.trace, evfArg |-> r.evfArg,
                      msg |-> <<>>]
    /\ UNCHANGED <<kind, phase, fields, loadCalls, loadSeen, model, loadOK, BDS, VDS, got, collated, asked>>

CallExtractVisualFeatures ==
    /\ call.op = "none"
    /\ kind = "violet"
    /\ \E self \in Receivers, images \in ImageArgs, faults \in SUBSET Faults(kind) :
          LET r == VioletExtractVisualFeatures(self, images, faults)
          IN call' = [op |-> "extract_visual_features", self |-> self,
                      images |-> images, features |-> <<>>, faults |-> faults,
                      raised |-> r.raised, err |-> r.err, val |-> r.val,
                      failed |-> "none", trace |-> <<>>, evfArg |-> <<>>, msg |-> <<>>]
    /\ UNCHANGED <<kind, phase, fields, loadCalls, loadSeen, model, loadOK, BDS, VDS, got, collated, asked>>

CallGenerateCaptionsFromFeatures ==
    /\ call.op = "none"
    /\ kind = "violet"
    /\ \E self \in Receivers,
          features \in SeqUpTo({"rgb", "rgb_of_pixel_values"}, MaxImages),
          faults \in SUBSET Faults(kind) :
          LET r == VioletGenerateCaptionsFromFeatures(self, features, faults)
          IN call' = [op |-> "generate_captions_from_features", self |-> self,
                      images |-> ListArg(<<>>), features |-> features,
                      faults |-> faults, raised |-> r.raised, err |-> r.err,
                      val |-> r.val, failed |-> "none", trace |-> <<>>,
                      evfArg |-> <<>>, msg |-> <<>>]
    /\ UNCHANGED <<kind, phase, fields, loadCalls, loadSeen, model, loadOK, BDS, VDS, got, collated, asked>>

CallBiTGenerateCaptions ==
    /\ call.op = "none"
    /\ kind = "bit"
    /\ \E self \in Receivers, items \in SeqUpTo(ImageInputs, MaxImages),
          faults \in SUBSET Faults(kind) :
          LET r == BiTGenerateCaptions(self, ListArg(items), faults)
          IN call' = [op |-> "bit_generate_captions", self |-> self,
                      images |-> ListArg(items), features |-> <<>>,
                      faults |-> faults, raised |-> r.raised, err |-> r.err,
                      val |-> r.val, failed |-> "none", trace |-> <<>>,
                      evfArg |-> <<>>, msg |-> <<>>]
    /\ UNCHANGED <<kind, phase, fields, loadCalls, loadSeen, model, loadOK, BDS, VDS, got, collated, asked>>

\* obj._prepare_image(image), called directly.
CallPrepareImage ==
    /\ call.op = "none"
    /\ kind \in {"base", "violet"}
    /\ \E self \in Receivers, image \in ImageInputs :
          LET r == PrepareImage(image)
          IN call' = [op |-> "_prepare_image", self |-> self,
                      images |-> SingleArg(image), features |-> <<>>,
                      faults |-> {}, raised |-> r.raised, err |-> r.err,
                      val |-> IF r.raised THEN <<>> ELSE <<r.val>>,
                      failed |-> "none", trace |-> <<>>, evfArg |-> <<>>,
                      msg |-> r.msg]
    /\ UNCHANGED <<kind, phase, fields, loadCalls, loadSeen, model, loadOK, BDS, VDS, got, collated, asked>>

\* obj.answer_question(question)
CallAnswerQuestion ==
    /\ asked.op = "none"
    /\ kind \in {"qa", "gemini"}
    /\ \E self \in Receivers, question \in QuestionArgs :
          LET r == AnswerQuestion(kind, self, question)
          IN asked' = [op |-> "answer_question", self |-> self,
                       question |-> question, raised |-> r.raised,
                       err |-> r.err, val |-> r.val]
    /\ UNCHANGED <<kind, phase, fields, loadCalls, loadSeen, model, loadOK, call, BDS, VDS, got, collated>>

\* The caller takes the answer.
ReturnAnswer ==
    /\ asked.op # "none"
    /\ asked' = NoAsked
    /\ UNCHANGED <<kind, phase, fields, loadCalls, loadSeen, model, loadOK, call, BDS, VDS, got, collated>>

\* The caller takes the result; the object is free for the next call.
Return ==
    /\ call.op # "none"
    /\ call' = NoCall
    /\ UNCHANGED <<kind, phase, fields, loadCalls, loadSeen, model, loadOK, BDS, VDS, got, collated, asked>>

Next ==
    \/ Construct
    \/ Return
    \/ CallGenerateCaptions
    \/ CallPrepareImage
    \/ CallExtractVisualFeatures
    \/ CallGenerateCaptionsFromFeatures
    \/ CallBiTGenerateCaptions
    \/ CallAnswerQuestion
    \/ ReturnAnswer

Spec == Init /\ [][Next]_vars

(***************************************************************************)
(* VQAv2Dataset: the positional join of a base and an auxiliary source     *)
(***************************************************************************)

\* d.get(k, default)
DictGet(d, k, default) == IF k \in DOMAIN d THEN d[k] ELSE default

\* The dict d without key k.
Without(d, k) == [x \in DOMAIN d \ {k} |-> d[x]]

\* seq[i] as Python indexes a list: 0-based, negative i counts from the
\* end, anything else is an IndexError.
InRange(seq, i) == i >= 0 - Len(seq) /\ i < Len(seq)
At(seq, i) == seq[IF i >= 0 THEN i + 1 ELSE Len(seq) + i + 1]

Example1 ==
    [metadata |-> [question_id |-> "Q1", image_id |-> "I1"],
     image |-> "image1",
     question |-> "What color is the car?",
     answers |-> <<[answer |-> "red"], [answer |-> "red"], [answer |-> "crimson"]>>,
     multiple_choice_answer |-> "red",
     captions |-> <<[caption |-> "a red car on a street"]>>]

Example2 ==
    [metadata |-> [question_id |-> "Q2", image_id |-> "I2"],
     image |-> "image2",
     question |-> "How many dogs are there?",
     answers |-> <<[answer |-> "two"], [answer_id |-> "a2"]>>,
     multiple_choice_answer |-> "two",
     captions |-> <<[caption |-> "two dogs on grass"], [caption |-> "dogs"]>>]

\* What the base source can hold at an index: a full example, or one with
\* a field absent.
BaseExamples ==
    {Example1, Example2}
        \cup {Without(Example1, k) : k \in {"metadata", "question", "answers", "captions"}}
        \cup {Without(Example2, k) : k \in {"captions", "multiple_choice_answer"}}

Aux1 == [captions |-> <<[caption |-> "an automobile, red colored"]>>]
Aux2 == [captions |-> <<[caption |-> "a pair of dogs"]>>]
Aux3 == [image_id |-> "I3"]

\* What the auxiliary source can hold at an index.
AuxExamples == {Aux1, Aux2, Aux3}

OkItem(e) == [raised |-> FALSE, err |-> "", item |-> e]
RaiseItem(e) == [raised |-> TRUE, err |-> e, item |-> <<>>]

\* VQAv2Dataset.__len__
DatasetLen(bds, vds) == Len(bds)

\* __getitem__ reading the auxiliary captions at the first index instead
\* of at idx.
GetItemAuxAtFirst(bds, vds, idx) ==
    IF ~InRange(bds, idx) THEN RaiseItem("IndexError")
    ELSE LET b == At(bds, idx)
         IN IF ~({"metadata", "image", "question", "multiple_choice_answer"}
                    \subseteq DOMAIN b)
               THEN RaiseItem("KeyError")
            ELSE IF ~InRange(vds, idx) THEN RaiseItem("IndexError")
            ELSE OkItem(
                    [metadata |-> b.metadata,
                     image |-> b.image,
                     question |-> b.question,
                     answers |-> DictGet(b, "answers", <<>>),
                     multiple_choice_answer |-> b.multiple_choice_answer,
                     bit |-> DictGet(b, "captions", <<>>),
                     violet |-> DictGet(At(vds, 0), "captions", <<>>)])

\* __getitem__ with the captions read as the required fields are:
\* BDS[idx]["captions"], VDS[idx]["captions"].
GetItemCaptionsRequired(bds, vds, idx) ==
    IF ~InRange(bds, idx) THEN RaiseItem("IndexError")
    ELSE LET b == At(bds, idx)
         IN IF ~({"metadata", "image", "question", "multiple_choice_answer", "captions"}
                    \subseteq DOMAIN b)
               THEN RaiseItem("KeyError")
            ELSE IF ~InRange(vds, idx) THEN RaiseItem("IndexError")
            ELSE IF "captions" \notin DOMAIN At(vds, idx) THEN RaiseItem("KeyError")
            ELSE OkItem(
                    [metadata |-> b.metadata,
                     image |-> b.image,
                     question |-> b.question,
                     answers |-> DictGet(b, "answers", <<>>),
                     multiple_choice_answer |-> b.multiple_choice_answer,
                     bit |-> b.captions,
                     violet |-> At(vds, idx).captions])

\* VQAv2Dataset.__getitem__: the dict display is evaluated key by key, in
\* order; BDS[idx] / VDS[idx] raise IndexError, a missing key KeyError.
GetItem(bds, vds, idx) ==
    IF ~InRange(bds, idx) THEN RaiseItem("IndexError")
    ELSE LET b == At(bds, idx)
         IN IF "metadata" \notin DOMAIN b THEN RaiseItem("KeyError")
            ELSE IF "image" \notin DOMAIN b THEN RaiseItem("KeyError")
            ELSE IF "question" \notin DOMAIN b THEN RaiseItem("KeyError")
            ELSE IF "multiple_choice_answer" \notin DOMAIN b THEN RaiseItem("KeyError")
            ELSE IF ~InRange(vds, idx) THEN RaiseItem("IndexError")
            ELSE OkItem(
                    [metadata |-> b.metadata,
                     image |-> b.image,
                     question |-> b.question,
                     answers |-> DictGet(b, "answers", <<>>),
                     multiple_choice_answer |-> b.multiple_choice_answer,
                     bit |-> DictGet(b, "captions", <<>>),
                     violet |-> DictGet(At(vds, idx), "captions", <<>>)])

\* VQAv2Dataset(BDS, VDS): the two sources are kept as given; nothing
\* compares their lengths.
DatasetInit ==
    /\ kind = "base"
    /\ phase = "new"
    /\ fields = {}
    /\ loadCalls = 0
    /\ loadSeen = <<>>
    /\ model = 0
    /\ loadOK = TRUE
    /\ call = NoCall
    /\ BDS \in SeqUpTo(BaseExamples, MaxLen)
    /\ VDS \in SeqUpTo(AuxExamples, MaxLen)
    /\ got = NoGot
    /\ collated = NoCollated
    /\ asked = NoAsked

\* len(dataset)
CallLen ==
    /\ got.op = "none"
    /\ got' = [op |-> "len", idx |-> 0, raised |-> FALSE, err |-> "",
               len |-> DatasetLen(BDS, VDS), item |-> <<>>]
    /\ UNCHANGED <<kind, phase, fields, loadCalls, loadSeen, model, loadOK, call, BDS, VDS, collated, asked>>

\* dataset[idx]
CallGetItem ==
    /\ got.op = "none"
    /\ collated.op = "none"
    /\ \E idx \in -1..MaxLen :
          LET r == GetItem(BDS, VDS, idx)
          IN got' = [op |-> "get", idx |-> idx, raised |-> r.raised, err |-> r.err,
                     len |-> 0, item |-> r.item]
    /\ UNCHANGED <<kind, phase, fields, loadCalls, loadSeen, model, loadOK, call, BDS, VDS, collated, asked>>

\* The caller takes the result.
ReturnItem ==
    /\ got.op # "none"
    /\ got' = NoGot
    /\ UNCHANGED <<kind, phase, fields, loadCalls, loadSeen, model, loadOK, call, BDS, VDS, collated, asked>>

DatasetNext == CallLen \/ CallGetItem \/ ReturnItem

DatasetSpec == DatasetInit /\ [][DatasetNext]_vars

(***************************************************************************)
(* VQAv2DataLoader.collate_fn                                              *)
(***************************************************************************)

\* The texts of a caption list.
RECURSIVE CaptionTexts(_)
CaptionTexts(caps) ==
    IF caps = <<>> THEN <<>>
    ELSE <<DictGet(Head(caps), "caption", "")>> \o CaptionTexts(Tail(caps))

\* OKVQADataLoader.create_prompt (inherited; its source is not part of the
\* files at hand): the question followed by the caption texts of the first
\* source, then of the second; the bare question when both are empty.
CreatePrompt(question, captions) ==
    <<question>> \o CaptionTexts(captions.bit) \o CaptionTexts(captions.violet)

\* The answers with the records that have no "answer" field left out.
AnswersPresentOnly(answers) ==
    LET has == SelectSeq(answers, LAMBDA a : "answer" \in DOMAIN a)
    IN [j \in 1..Len(has) |-> has[j].answer]

\* list(map(lambda ans: ans.get("answer", ""), answers))
AnswerStrings(answers) ==
    [j \in 1..Len(answers) |-> DictGet(answers[j], "answer", "")]

\* result as collate_fn creates it: five empty columns.
EmptyBatch ==
    [question_id |-> <<>>, image_id |-> <<>>, prompts |-> <<>>, answers |-> <<>>,
     multiple_choice_answer |-> <<>>]

OkBatch(b) == [raised |-> FALSE, err |-> "", val |-> b]
RaiseBatch(e) == [raised |-> TRUE, err |-> e, val |-> <<>>]

\* The loop body written with .get and defaults: a missing question or
\* metadata is replaced by an empty one and the item is kept.
CollateItemWithDefaults(result, item) ==
    LET meta == DictGet(item, "metadata", [question_id |-> "", image_id |-> ""])
    IN OkBatch(
          [question_id |-> Append(result.question_id, DictGet(meta, "question_id", "")),
           image_id |-> Append(result.image_id, DictGet(meta, "image_id", "")),
           prompts |-> Append(result.prompts,
                              CreatePrompt(DictGet(item, "question", ""),
                                           [bit |-> DictGet(item, "bit", <<>>),
                                            violet |-> DictGet(item, "violet", <<>>)])),
           answers |-> Append(result.answers,
                              AnswerStrings(DictGet(item, "answers", <<>>))),
           multiple_choice_answer |->
               Append(result.multiple_choice_answer,
                      DictGet(item, "multiple_choice_answer", ""))])

\* The loop body inserting at the head of each column instead of appending.
CollateItemAtHead(result, item) ==
    IF ~({"question", "bit", "violet", "metadata", "answers", "multiple_choice_answer"}
            \subseteq DOMAIN item)
       THEN RaiseBatch("KeyError")
    ELSE IF ~({"question_id", "image_id"} \subseteq DOMAIN item.metadata)
       THEN RaiseBatch("KeyError")
    ELSE OkBatch(
            [question_id |-> <<item.metadata.question_id>> \o result.question_id,
             image_id |-> <<item.metadata.image_id>> \o result.image_id,
             prompts |-> <<CreatePrompt(item.question,
                                        [bit |-> item.bit, violet |-> item.violet])>>
                         \o result.prompts,
             answers |-> <<AnswerStrings(item.answers)>> \o result.answers,
             multiple_choice_answer |->
                 <<item.multiple_choice_answer>> \o result.multiple_choice_answer])

\* The body of the loop of collate_fn for one item: the prompt is built
\* from question, bit and violet, then the five columns are appended to in
\* turn.  A missing key is a KeyError.
CollateItem(result, item) ==
    IF ~({"question", "bit", "violet"} \subseteq DOMAIN item)
       THEN RaiseBatch("KeyError")
    ELSE IF "metadata" \notin DOMAIN item
            \/ ~({"question_id", "image_id"} \subseteq DOMAIN item.metadata)
       THEN RaiseBatch("KeyError")
    ELSE IF ~({"answers", "multiple_choice_answer"} \subseteq DOMAIN item)
       THEN RaiseBatch("KeyError")
    ELSE OkBatch(
            [question_id |-> Append(result.question_id, item.metadata.question_id),
             image_id |-> Append(result.image_id, item.metadata.image_id),
             prompts |-> Append(result.prompts,
                                CreatePrompt(item.question,
                                             [bit |-> item.bit, violet |-> item.violet])),
             answers |-> Append(result.answers, AnswerStrings(item.answers)),
             multiple_choice_answer |->
                 Append(result.multiple_choice_answer, item.multiple_choice_answer)])

\* for item in batch: ...; an exception leaves the loop and the function,
\* and the columns built so far are dropped with the frame.
RECURSIVE CollateLoop(_, _, _)
CollateLoop(batch, k, result) ==
    IF k > Len(batch) THEN OkBatch(result)
    ELSE LET r == CollateItem(result, batch[k])
         IN IF r.raised THEN r ELSE CollateLoop(batch, k + 1, r.val)

\* VQAv2DataLoader.collate_fn
CollateFn(batch) == CollateLoop(batch, 1, EmptyBatch)

\* Examples as VQAv2Dataset.__getitem__ produces them.
Item1 == GetItem(<<Example1>>, <<Aux1>>, 0).item
Item2 == GetItem(<<Example2>>, <<Aux3>>, 0).item
Item3 == GetItem(<<Without(Example1, "captions")>>, <<Aux2>>, 0).item
Item4 == GetItem(<<Without(Example1, "answers")>>, <<Aux3>>, 0).item

\* What a caller can hand to collate_fn: examples from the dataset, and
\* dicts with a key absent.
LoaderItems ==
    {Item1, Item2, Item3, Item4}
        \cup {Without(Item1, k) : k \in {"question", "metadata", "answers"}}
        \cup {Without(Item2, k) : k \in {"bit", "multiple_choice_answer"}}
        \cup {[Item2 EXCEPT !.metadata = [image_id |-> "I2"]]}

\* A loader over a dataset of one example: its examples are fetched with
\* dataset[idx], and collate_fn is handed lists of examples.
LoaderInit ==
    /\ kind = "base"
    /\ phase = "new"
    /\ fields = {}
    /\ loadCalls = 0
    /\ loadSeen = <<>>
    /\ model = 0
    /\ loadOK = TRUE
    /\ call = NoCall
    /\ BDS \in {<<b>> : b \in BaseExamples}
    /\ VDS \in {<<a>> : a \in AuxExamples}
    /\ got = NoGot
    /\ collated = NoCollated
    /\ asked = NoAsked

\* loader.collate_fn(batch)
CallCollate ==
    /\ collated.op = "none"
    /\ got.op = "none"
    /\ \E batch \in SeqUpTo(LoaderItems, MaxBatch) :
          LET r == CollateFn(batch)
          IN collated' = [op |-> "collate", batch |-> batch, raised |-> r.raised,
                          err |-> r.err, val |-> r.val]
    /\ UNCHANGED <<kind, phase, fields, loadCalls, loadSeen, model, loadOK, call, BDS, VDS, got, asked>>

\* The caller takes the batch.
ReturnBatch ==
    /\ collated.op # "none"
    /\ collated' = NoCollated
    /\ UNCHANGED <<kind, phase, fields, loadCalls, loadSeen, model, loadOK, call, BDS, VDS, got, asked>>

LoaderNext == CallCollate \/ ReturnBatch \/ CallGetItem \/ ReturnItem

LoaderSpec == LoaderInit /\ [][LoaderNext]_vars

(***************************************************************************)
(* Properties of the captioning backends (Spec)                            *)
(***************************************************************************)

Range(seq) == {seq[i] : i \in 1..Len(seq)}

\* The number of images the caller passed: a value that is not a list
\* counts as one image.
Requested(images) == IF images.isList THEN Len(images.items) ELSE 1

\* The images as the caller passed them.
PassedImages(images) == IF images.isList THEN Range(images.items) ELSE {images.one}

\* Some image of the argument cannot be prepared; some image can.
SomeUnpreparable(images) == \E x \in PassedImages(images) : PrepareImage(x).raised
SomePreparable(images) == \E x \in PassedImages(images) : ~PrepareImage(x).raised

\* One empty caption list per requested image.
EmptyListPerRequested(c) ==
    /\ Len(c.val) = Requested(c.images)
    /\ \A i \in 1..Len(c.val) : c.val[i] = <<>>

\* obj.extract_visual_features(images): dispatch on the class of obj.
ExtractOf(k, self, images, faults) ==
    IF k = "violet" THEN VioletExtractVisualFeatures(self, images, faults)
                    ELSE AbstractExtractVisualFeatures(self, images, faults)

C3_PrimitivesSurfaceErrors ==
    /\ (/\ call.op = "extract_visual_features"
        /\ \/ SomeUnpreparable(call.images)
           \/ call.faults \cap {"evf_processor", "encoder"} # {}
           \/ ~({"processor", "device", "model"} \subseteq call.self))
       => (call.raised /\ call.err = "Exception" /\ call.val = <<>>)
    /\ (/\ call.op = "generate_captions_from_features"
        /\ \/ "beam_search" \in call.faults
           \/ ~({"model", "cfg", "tokenizer"} \subseteq call.self))
       => (call.raised /\ call.err = "Exception" /\ call.val = <<>>)

\* C3 witness: the encoder fails in a direct extract_visual_features call
\* on two good images, on a receiver with every attribute set.
C3_Witness ==
    /\ call.op = "extract_visual_features"
    /\ call.self = VioletFields
    /\ call.faults = {"encoder"}
    /\ Requested(call.images) = 2
    /\ ~SomeUnpreparable(call.images)
    /\ call.raised

\* C9 as stated: a backend whose constructor has run, the weights being
\* loadable, is an instance that entered _load_model exactly once and holds
\* the model that load produced.
C9_LoadedOnceAtConstruction ==
    (phase # "new" /\ loadOK /\ kind \in {"base", "violet", "qa"})
    => (phase = "ready" /\ loadCalls = 1 /\ model = 1)

\* A mixed batch: a list with an image that cannot be prepared and one that
\* can, no collaborator failing, every attribute of the receiver set.
MixedBatch(c) ==
    /\ c.op \in {"generate_captions", "bit_generate_captions"}
    /\ c.images.isList
    /\ SomeUnpreparable(c.images)
    /\ SomePreparable(c.images)
    /\ c.faults = {}
    /\ (kind = "violet" => c.self = VioletFields)

\* C10 as stated: in a mixed batch the images that can be processed keep
\* their captions.
C10_SiblingsKeepCaptions ==
    MixedBatch(call)
    => (/\ ~call.raised
        /\ Len(call.val) = Len(call.images.items)
        /\ \A i \in 1..Len(call.val) :
              ~PrepareImage(call.images.items[i]).raised => call.val[i] # <<>>)

\* C10 amended: in a mixed batch the failure of one image takes the whole
\* call with it: generate_captions of CaptionGenerator and VioletCaptioner
\* returns an empty caption list for every image, the processable ones
\* included, and the BiT pipeline raises RuntimeError and returns nothing.
C10_FailureDegradesWholeBatch ==
    MixedBatch(call)
    => (/\ call.op = "generate_captions"
           => (~call.raised /\ \A i \in 1..Len(call.val) : call.val[i] = <<>>)
        /\ call.op = "bit_generate_captions"
           => (call.raised /\ call.err = "RuntimeError" /\ call.val = <<>>))

\* C10 witness: an inheriting backend is given a good image and a missing
\* file; both come back without captions.
C10_Witness ==
    /\ MixedBatch(call)
    /\ kind = "base"
    /\ call.images.items = <<"pil", "path_missing">>
    /\ call.val = << <<>>, <<>> >>

\* Why an input cannot be prepared: its source cannot be fetched (a failed
\* download, a file that cannot be opened), its bytes do not decode, or its
\* type is none of the supported ones.
Cause(image) ==
    CASE image \in {"url_down", "path_missing"} -> "fetch"
      [] image \in {"url_corrupt", "path_corrupt"} -> "decode"
      [] image = "other" -> "unsupported"
      [] OTHER -> "none"

RGBImages == {"rgb", "rgb_of_pixel_values"}

\* A direct _prepare_image call that succeeded returned an RGB image.
ReturnsRGB(c) == ~c.raised /\ Len(c.val) = 1 /\ c.val[1] \in RGBImages

\* C11 as stated: the class of the exception a failed _prepare_image call
\* raises tells the cause: two inputs fail with the same class exactly when
\* they fail for the same cause (fetch, decode, unsupported type); and a
\* supported input that can be prepared yields an RGB image.
C11_KindIdentifiesCause ==
    call.op = "_prepare_image"
    => IF Cause(call.images.one) = "none"
          THEN ReturnsRGB(call)
          ELSE /\ call.raised
               /\ \A x \in ImageInputs :
                     Cause(x) # "none"
                     => ((PrepareImage(x).err = call.err)
                            <=> (Cause(x) = Cause(call.images.one)))

\* C11 amended: _prepare_image raises two classes.  A failed download raises
\* RequestException.  A file that cannot be opened, bytes that do not
\* decode (from a file or from a download) and an input of unsupported type
\* all raise ValueError, told apart by the message only: the message of the
\* unsupported type carries the name of the observed type.  A supported
\* input that can be prepared yields an RGB image.
C11_TwoKindsDownloadAndValueError ==
    call.op = "_prepare_image"
    => LET image == call.images.one
       IN CASE image = "url_down" ->
                 /\ call.raised /\ call.err = "RequestException" /\ call.val = <<>>
            [] image \in {"path_missing", "path_corrupt", "url_corrupt"} ->
                 /\ call.raised /\ call.err = "ValueError" /\ call.val = <<>>
                 /\ Head(call.msg) = "Error preparing image"
            [] image = "other" ->
                 /\ call.raised /\ call.err = "ValueError" /\ call.val = <<>>
                 /\ call.msg = <<"Error preparing image",
                                 "Unsupported image input type", TypeOf(image)>>
            [] OTHER -> ReturnsRGB(call)

\* C11 witness: a file that does not decode is reported with the class an
\* unsupported type and a missing file are reported with.
C11_Witness ==
    /\ call.op = "_prepare_image"
    /\ call.images.one = "path_corrupt"
    /\ call.raised
    /\ call.err = "ValueError"
    /\ PrepareImage("other").err = call.err
    /\ PrepareImage("path_missing").err = call.err

\* C12 as stated: answer_question called with one question string returns
\* one answer string; called with a list of K question strings it returns a
\* list of exactly K answer strings.
C12_AnswerMirrorsQuestionShape ==
    asked.op = "answer_question"
    => (/\ ~asked.raised
        /\ asked.val.type = asked.question.type
        /\ Len(asked.val.items) = Len(asked.question.items))

\* obj.generate_captions_from_features(features): dispatch on the class.
GenerateFromFeaturesOf(k, self, features, faults) ==
    IF k = "violet" THEN VioletGenerateCaptionsFromFeatures(self, features, faults)
                    ELSE AbstractGenerateCaptionsFromFeatures(self, features, faults)

\* generate_captions_from_features(extract_visual_features(
\*     [normalize(img) for img in images])) on the receiver of call c.
Composition(k, c) ==
    LET normalized == MapPrepare(Wrap(c.images))
        features == ExtractOf(k, c.self, ListArg(normalized.val), c.faults)
    IN [normalized |-> normalized.val,
        captions |-> GenerateFromFeaturesOf(k, c.self, features.val, c.faults).val]

\* C13 as stated: a generate_captions call whose try block returned entered
\* the normalization, extract_visual_features once and
\* generate_captions_from_features, in that order and nothing else;
\* extract_visual_features was handed the normalized caller's images, one
\* per image in input order; and the captions returned are those of the
\* composition.
C13_ExactlyNormalizeExtractGenerate ==
    (call.op = "generate_captions" /\ call.failed = "none")
    => (/\ call.trace = <<"_prepare_image", "extract_visual_features",
                          "generate_captions_from_features">>
        /\ call.evfArg = Composition(kind, call).normalized
        /\ call.val = Composition(kind, call).captions)

\* The attributes VioletCaptioner._load_model reads.
ReadByVioletLoadModel == {"cfg", "device", "tokenizer"}

\* C14 as stated: once VioletCaptioner(config) has run on a configuration
\* whose checkpoint can be loaded, every entry of _load_model found cfg,
\* device and tokenizer assigned, the constructor returned, and the
\* instance holds a loaded model.
C14_LoadsAfterFieldsAssigned ==
    (kind = "violet" /\ phase # "new" /\ loadOK)
    => (/\ \A i \in 1..Len(loadSeen) : ReadByVioletLoadModel \subseteq loadSeen[i]
        /\ phase = "ready"
        /\ model # 0
        /\ "model" \in fields)

(***************************************************************************)
(* Properties of the dataset join (DatasetSpec)                            *)
(***************************************************************************)

\* The fields __getitem__ reads with BDS[idx][...].
RequiredBaseFields == {"metadata", "image", "question", "multiple_choice_answer"}

\* idx is an index of the dataset: 0 <= idx < len(dataset).
IndexOfDataset(idx) == idx >= 0 /\ idx < Len(BDS)

\* item is the join of base example b and auxiliary example a.
JoinOf(item, b, a) ==
    /\ item.metadata = b.metadata
    /\ item.image = b.image
    /\ item.question = b.question
    /\ item.multiple_choice_answer = b.multiple_choice_answer
    /\ "answers" \in DOMAIN b => item.answers = b.answers
    /\ item.bit = (IF "captions" \in DOMAIN b THEN b.captions ELSE <<>>)
    /\ item.violet = (IF "captions" \in DOMAIN a THEN a.captions ELSE <<>>)

\* C5 as stated: the length is that of the base source, and at every index
\* of the dataset whose base example has its fields, get returns the join of
\* base[i] and auxiliary[i].
C5_JoinAtEveryDatasetIndex ==
    /\ got.op = "len" => got.len = Len(BDS)
    /\ (/\ got.op = "get"
        /\ IndexOfDataset(got.idx)
        /\ RequiredBaseFields \subseteq DOMAIN BDS[got.idx + 1])
       => (/\ ~got.raised
           /\ got.idx < Len(VDS)
           /\ JoinOf(got.item, BDS[got.idx + 1], VDS[got.idx + 1]))

\* C5 amended: the length is that of the base source whatever the length of
\* the auxiliary source; at an index of the dataset that is also an index of
\* the auxiliary source get returns the join of base[i] and auxiliary[i];
\* at an index of the dataset beyond the auxiliary source get raises
\* IndexError and returns nothing.
C5_JoinWhereAuxiliaryReaches ==
    /\ got.op = "len" => got.len = Len(BDS)
    /\ (/\ got.op = "get"
        /\ IndexOfDataset(got.idx)
        /\ RequiredBaseFields \subseteq DOMAIN BDS[got.idx + 1])
       => IF got.idx < Len(VDS)
             THEN ~got.raised /\ JoinOf(got.item, BDS[got.idx + 1], VDS[got.idx + 1])
             ELSE got.raised /\ got.err = "IndexError"

\* C5 witness: the second example of a two-example dataset is joined with
\* the second auxiliary example, which differs from the first.
C5_Witness ==
    /\ got.op = "get"
    /\ got.idx = 1
    /\ Len(BDS) = 2
    /\ Len(VDS) = 2
    /\ VDS[1] # VDS[2]
    /\ "captions" \in DOMAIN VDS[2]
    /\ ~got.raised
    /\ got.item.violet = VDS[2].captions
    /\ got.item.question = BDS[2].question

\* C6: at an index valid in both sources, on a base example that has its
\* required fields, get succeeds whether or not the captions fields exist:
\* "bit" is empty when base[i] has no captions, "violet" is empty when
\* auxiliary[i] has none.
C6_MissingCaptionsDefaultToEmpty ==
    (/\ got.op = "get"
     /\ InRange(BDS, got.idx)
     /\ InRange(VDS, got.idx)
     /\ RequiredBaseFields \subseteq DOMAIN At(BDS, got.idx))
    => (/\ ~got.raised
        /\ "captions" \notin DOMAIN At(BDS, got.idx) => got.item.bit = <<>>
        /\ "captions" \notin DOMAIN At(VDS, got.idx) => got.item.violet = <<>>)

\* C6 witness: neither source has captions at the index and the example
\* comes back with both caption lists empty.
C6_Witness ==
    /\ got.op = "get"
    /\ InRange(BDS, got.idx)
    /\ InRange(VDS, got.idx)
    /\ "captions" \notin DOMAIN At(BDS, got.idx)
    /\ "captions" \notin DOMAIN At(VDS, got.idx)
    /\ ~got.raised
    /\ got.item.bit = <<>>
    /\ got.item.violet = <<>>

(***************************************************************************)
(* Properties of collate_fn (LoaderSpec)                                   *)
(***************************************************************************)

\* The keys collate_fn reads from an example.
ItemKeys == {"question", "bit", "violet", "metadata", "answers", "multiple_choice_answer"}

WellFormedItem(item) ==
    /\ ItemKeys \subseteq DOMAIN item
    /\ {"question_id", "image_id"} \subseteq DOMAIN item.metadata

AllWellFormed(batch) == \A k \in 1..Len(batch) : WellFormedItem(batch[k])

\* An example without its question or without its metadata.
LacksRequired(item) == "question" \notin DOMAIN item \/ "metadata" \notin DOMAIN item

C7_MissingRequiredFieldRaises ==
    /\ (/\ got.op = "get"
        /\ InRange(BDS, got.idx)
        /\ LacksRequired(At(BDS, got.idx)))
       => (got.raised /\ got.err = "KeyError" /\ got.item = <<>>)
    /\ (/\ collated.op = "collate"
        /\ \E k \in 1..Len(collated.batch) : LacksRequired(collated.batch[k]))
       => (collated.raised /\ collated.err = "KeyError" /\ collated.val = <<>>)

\* C7 witness: the second of two examples has no question; the call raises
\* although the first example had been collated.
C7_Witness ==
    /\ collated.op = "collate"
    /\ Len(collated.batch) = 2
    /\ WellFormedItem(collated.batch[1])
    /\ "question" \notin DOMAIN collated.batch[2]
    /\ collated.raised
    /\ collated.val = <<>>

\* C8: in a batch collated from well-formed examples, answers[i] has the
\* length and order of the example's answers, each entry the record's
\* "answer" string or "" when the record has none, and
\* multiple_choice_answer[i] is the example's, unchanged.
C8_AnswersReducedToStrings ==
    (collated.op = "collate" /\ AllWellFormed(collated.batch))
    => (/\ ~collated.raised
        /\ \A i \in 1..Len(collated.batch) :
              LET given == collated.batch[i].answers
                  out == collated.val.answers[i]
              IN /\ Len(out) = Len(given)
                 /\ \A j \in 1..Len(given) :
                       out[j] = (IF "answer" \in DOMAIN given[j]
                                    THEN given[j].answer ELSE "")
                 /\ collated.val.multiple_choice_answer[i]
                       = collated.batch[i].multiple_choice_answer
                 /\ collated.batch[i] = Item1 => out = <<"red", "red", "crimson">>)

\* C8 witness: an example whose second answer record has no "answer"
\* field, next to the red / red / crimson example.
C8_Witness ==
    /\ collated.op = "collate"
    /\ collated.batch = <<Item2, Item1>>
    /\ ~collated.raised
    /\ collated.val.answers = << <<"two", "">>, <<"red", "red", "crimson">> >>
    /\ collated.val.multiple_choice_answer = <<"two", "red">>

====
